---- MODULE Spec2Model ----
(***************************************************************************)
(* A model of kalite/securesync/models.py: signed, counter-ordered records *)
(* replicated between devices.  Each process ("A", "B") owns one store     *)
(* (the tables of its database).  A store is a record                      *)
(*   rows      - the rows of every SyncedModel table (Device included),    *)
(*               one per (model, id)                                       *)
(*   metadata  - the DeviceMetadata table, as a function of the device id  *)
(*   purgatory - the ImportPurgatory table, as a function of the row's pk  *)
(* Ids are sequences of strings: uuid5(namespace, name) appends the name   *)
(* to the namespace, so that equal ids come from equal arguments only.     *)
(* An unset id or foreign key is the empty sequence, an unset text column  *)
(* the empty string.                                                       *)
(***************************************************************************)
EXTENDS Integers, Sequences, FiniteSets, TLC

VARIABLES
    db,     \* db[p]: the store of process p
    last,   \* what the last operation was given and what it returned
    origin, \* history: id -> the device and counter of the save that allocated it
    seen,   \* history: seen[p][d]: the highest counter of a record signed by d that p imported
    pull,   \* the multi-round pull of peer B from A: limit, rounds, batches so far
    pc,     \* concurrent local saves: the position of each saver in SyncedModel.save
    loc     \* concurrent local saves: each saver's local variables

vars == <<db, last, origin, seen, pull, pc, loc>>

----------------------------------------------------------------------------
(* Bounds of the model *)

MaxCounter == 2     \* local saves of device A
MaxResave == 1      \* local saves of device B
MaxBatch == 2       \* records in one imported batch
MaxPurgatory == 1   \* purgatory rows per store
MaxRetry == 1       \* retry_attempts of a purgatory row
MaxRecords == 4     \* records device A holds in the multi-round pull
MaxLimit == 3       \* the limit of the multi-round pull
MaxRounds == 5      \* rounds of the multi-round pull
MaxSavers == 3      \* concurrent local saves
MaxPrior == 1       \* local saves of device A before the concurrent ones
MaxCallers == 3     \* concurrent get_own_device() calls
MaxZones == 2       \* zones device A creates before the selector runs
MaxAuthored == 4    \* local saves of device A before the selector runs
MaxPeer == 2        \* local saves of device B before the selector runs
MaxKnown == 2       \* highest counter a peer reports in device_counters
MaxSessions == 2    \* sync sessions a client opens

Stores == {"A", "B"}

----------------------------------------------------------------------------
(* Module-level values of models.py *)

unhashable_fields == {"signature", "signed_by"}
always_hash_fields == <<"signed_version", "id">>
ROOT_UUID_NAMESPACE == <<"root">>
syncing_models == <<"Facility", "FacilityGroup", "FacilityUser", "SyncedLog">>
DefaultSignedVersion == 1
\* settings.CENTRAL_SERVER of process p: neither A nor B is the central server
CENTRAL_SERVER(p) == p \notin Stores

NoId == <<>>
NoSignature == [by |-> "", msg |-> <<>>]

----------------------------------------------------------------------------
(* crypto and uuid: a signature names the private key that made it and the *)
(* text it was made over; only that key's public half verifies it, and     *)
(* only over that text.                                                    *)

get_public_key(p) == ToString(<<"pub", p>>)
crypto_sign(p, text) == [by |-> get_public_key(p), msg |-> text]
crypto_verify(text, signature, key) ==
    /\ signature # NoSignature
    /\ signature.by = key
    /\ signature.msg = text

uuid5(namespace, name) == Append(namespace, name)
str(n) == ToString(n)

----------------------------------------------------------------------------
(* The columns of the model classes.  An instance carries the columns the  *)
(* model varies; every other column is blank.                              *)

BoolCols == {"deleted", "is_teacher"}
IntCols == {"counter", "signed_version", "user_count", "latitude", "longitude", "zoom"}
FKCols == {"facility", "group", "zone", "zone_fallback", "device"}
IdCols == FKCols \cup {"id", "signed_by"}

FKTarget(f) ==
    CASE f = "facility" -> "Facility"
      [] f = "group" -> "FacilityGroup"
      [] f = "device" -> "Device"
      [] OTHER -> "Zone"

Blank(f) ==
    IF f \in BoolCols THEN FALSE
    ELSE IF f \in IntCols THEN 0
    ELSE IF f \in IdCols THEN NoId
    ELSE IF f = "signature" THEN NoSignature
    ELSE ""

\* [field.name for field in self._meta.fields], in sorted order
FieldNames(model) ==
    CASE model = "Facility" ->
           <<"address", "address_normalized", "contact_email", "contact_name",
             "contact_phone", "counter", "deleted", "description", "id", "latitude",
             "longitude", "name", "signature", "signed_by", "signed_version",
             "user_count", "zone_fallback", "zoom">>
      [] model = "FacilityGroup" ->
           <<"counter", "deleted", "facility", "id", "name", "signature", "signed_by",
             "signed_version", "zone_fallback">>
      [] model = "FacilityUser" ->
           <<"counter", "deleted", "facility", "first_name", "group", "id",
             "is_teacher", "last_name", "notes", "password", "signature", "signed_by",
             "signed_version", "username", "zone_fallback">>
      [] model = "Zone" ->
           <<"counter", "deleted", "description", "id", "name", "signature",
             "signed_by", "signed_version", "zone_fallback">>
      [] model = "DeviceZone" ->
           <<"counter", "deleted", "device", "id", "signature", "signed_by",
             "signed_version", "zone", "zone_fallback">>
      [] model = "SyncedLog" ->
           <<"category", "counter", "data", "deleted", "id", "signature", "signed_by",
             "signed_version", "value", "zone_fallback">>
      [] model = "Device" ->
           <<"counter", "deleted", "description", "id", "name", "public_key",
             "signature", "signed_by", "signed_version", "zone_fallback">>

\* the default field list of _hashable_representation
SortedFields(model) ==
    SelectSeq(FieldNames(model), LAMBDA f : f \notin unhashable_fields)

\* requires_trusted_signature, were no model class to set it
requires_trusted_signature_none(model) == FALSE

\* requires_trusted_signature is True on Zone and DeviceZone
requires_trusted_signature(model) == model \in {"Zone", "DeviceZone"}

Value(obj, f) == IF f \in DOMAIN obj THEN obj[f] ELSE Blank(f)

\* a new, unsaved instance of a model class with the given columns set
NewInstance(model, cols) ==
    cols @@ [model |-> model, id |-> NoId, counter |-> 0, signature |-> NoSignature,
             signed_version |-> DefaultSignedVersion, signed_by |-> NoId,
             zone_fallback |-> NoId, deleted |-> FALSE]

----------------------------------------------------------------------------
(* Tables *)

EmptyStore == [rows |-> {}, metadata |-> <<>>, purgatory |-> <<>>]

Exists(st, model, id) == \E r \in st.rows : r.model = model /\ r.id = id
Row(st, model, id) == CHOOSE r \in st.rows : r.model = model /\ r.id = id

\* Model.save_base: insert, or update the row of the same primary key
Persist(st, obj) ==
    [st EXCEPT !.rows = {r \in @ : ~(r.model = obj.model /\ r.id = obj.id)} \cup {obj}]

----------------------------------------------------------------------------
(* Canonical representation and signatures *)

\* for field in _always_hash_fields: if field not in fields: fields = [field] + fields
Prepend(field, fields) ==
    IF \E i \in 1..Len(fields) : fields[i] = field THEN fields ELSE <<field>> \o fields

\* Dangling, were reading a foreign key never to raise
Dangling_never(st, obj, f) == FALSE

\* getattr(self, field) of a foreign key column fetches the row it names and
\* raises DoesNotExist when the store has no such row
Dangling(st, obj, f) ==
    /\ f \in FKCols
    /\ Value(obj, f) # NoId
    /\ ~Exists(st, FKTarget(f), Value(obj, f))

\* chunks.append("%s=%s" % (field, val)) for the fields kept
Chunks(obj, kept) ==
    [i \in 1..Len(kept) |-> <<kept[i], ToString(Value(obj, kept[i]))>>]

\* the for loop over the fields: the chunks of the non-falsy ones, in order;
\* raised when reading a field raised
hashable_chunks(st, obj, fields) ==
    [raised |-> \E i \in 1..Len(fields) : Dangling(st, obj, fields[i]),
     text |-> Chunks(obj, SelectSeq(fields, LAMBDA f : Value(obj, f) # Blank(f)))]

\* SyncedModel._hashable_representation(fields); <<>> is fields=None
hashable_representation(st, obj, fields) ==
    hashable_chunks(st, obj,
        Prepend(always_hash_fields[2],
                Prepend(always_hash_fields[1],
                        IF fields = <<>> THEN SortedFields(obj.model) ELSE fields)))

\* Device._hashable_representation, were it not to override the field list
Device_hashable_representation_default(st, obj) ==
    hashable_representation(st, obj, <<>>)

\* Device._hashable_representation
Device_hashable_representation(st, obj) ==
    hashable_representation(st, obj, <<"signed_version", "name", "description", "public_key">>)

Representation(st, obj) ==
    IF obj.model = "Device" THEN Device_hashable_representation(st, obj)
    ELSE hashable_representation(st, obj, <<>>)

\* try: return crypto.verify(representation, signature, key); except: return False
TryVerify(h, signature, key) ==
    IF ~h.raised /\ crypto_verify(h.text, signature, key) THEN "true" ELSE "false"

\* Device.get_metadata: the device's metadata row, or a fresh unsaved one
get_metadata(st, id) ==
    IF id \in DOMAIN st.metadata THEN st.metadata[id]
    ELSE [is_trusted |-> FALSE, is_own_device |-> FALSE, counter_position |-> 0]

\* Device.verify: "true" or "false"
Device_verify(st, obj) ==
    IF obj.signed_by # obj.id THEN "false"
    ELSE TryVerify(Device_hashable_representation(st, obj), obj.signature, obj.public_key)

\* SyncedModel.verify: "true", "false", or "DoesNotExist" when reading
\* self.signed_by raises, which happens outside the try block
SyncedModel_verify(st, obj) ==
    IF obj.signed_by = NoId THEN "false"
    ELSE IF requires_trusted_signature(obj.model) /\ ~Exists(st, "Device", obj.signed_by)
    THEN "DoesNotExist"
    ELSE IF requires_trusted_signature(obj.model)
            /\ ~get_metadata(st, obj.signed_by).is_trusted
    THEN "false"
    ELSE IF ~Exists(st, "Device", obj.signed_by) THEN "DoesNotExist"
    ELSE TryVerify(hashable_representation(st, obj, <<>>), obj.signature,
                   Row(st, "Device", obj.signed_by).public_key)

verify(st, obj) ==
    IF obj.model = "Device" THEN Device_verify(st, obj) ELSE SyncedModel_verify(st, obj)

----------------------------------------------------------------------------
(* Device registry *)

PutMetadata(st, id, metadata) == [st EXCEPT !.metadata = (id :> metadata) @@ @]

\* set_counter_position, were it to store the position given whatever the old one
set_counter_position_last(st, id, counter_position) ==
    IF id = NoId THEN st
    ELSE PutMetadata(st, id,
             [get_metadata(st, id) EXCEPT !.counter_position = counter_position])

\* Device.set_counter_position
set_counter_position(st, id, counter_position) ==
    IF id = NoId THEN st
    ELSE IF counter_position > get_metadata(st, id).counter_position
    THEN PutMetadata(st, id,
             [get_metadata(st, id) EXCEPT !.counter_position = counter_position])
    ELSE st

\* Device.increment_and_get_counter, run alone: the store and the counter returned
increment_and_get_counter(st, id) ==
    IF id = NoId THEN [st |-> st, counter |-> 0]
    ELSE [st |-> PutMetadata(st, id, [get_metadata(st, id) EXCEPT !.counter_position = @ + 1]),
          counter |-> get_metadata(st, id).counter_position + 1]

\* Device.get_counter
get_counter(st, id) ==
    IF id = NoId THEN 0 ELSE get_metadata(st, id).counter_position

\* Device.get_uuid (public_key is set before every save of a new Device)
Device_get_uuid(obj) == uuid5(ROOT_UUID_NAMESPACE, str(obj.public_key))

\* metadata.is_own_device = True; metadata.is_trusted = settings.CENTRAL_SERVER
initialize_own_metadata(st, p, id) ==
    [st |-> PutMetadata(st, id, [get_metadata(st, id) EXCEPT
                                    !.is_own_device = TRUE,
                                    !.is_trusted = CENTRAL_SERVER(p)]),
     id |-> id]

\* own_device = Device(**kwargs); own_device.set_public_key(...);
\* own_device.sign(device=own_device): the device has no id yet, so signed_by
\* stays unset and the signature is over a representation with no id
own_device_new(st, p, own) ==
    [own EXCEPT !.signature = crypto_sign(p, Device_hashable_representation(st, own).text)]

\* self.counter = own_device.increment_and_get_counter(); self.id = self.get_uuid()
own_device_id(st, own) ==
    [own EXCEPT !.counter = increment_and_get_counter(st, NoId).counter,
                !.id = Device_get_uuid(own)]

\* self.sign(device=own_device), the id being set
own_device_signed(st, p, own) ==
    [own EXCEPT !.signed_by = own.id,
                !.signature = crypto_sign(p, Device_hashable_representation(st, own).text)]

\* own_device.save(own_device=own_device) once the id is allocated and the row
\* inserted: sign(device=own_device), store again
initialize_own_signed(st, p, own) ==
    initialize_own_metadata(Persist(st, own_device_signed(st, p, own)), p, own.id)

\* own_device.save(own_device=own_device) of the new Device: the counter is
\* what increment_and_get_counter returns for a device with no id, the id is
\* allocated and the row inserted
initialize_own_saved(st, p, own) ==
    initialize_own_signed(Persist(st, own), p, own)

initialize_own_id(st, p, own) ==
    initialize_own_saved(st, p, own_device_id(st, own))

\* Device.initialize_own_device: the store afterwards and the device's id
initialize_own_device(st, p) ==
    initialize_own_id(st, p,
        own_device_new(st, p,
            NewInstance("Device", [name |-> "", public_key |-> get_public_key(p)])))

OwnDevices(st) == {id \in DOMAIN st.metadata : st.metadata[id].is_own_device}

\* Device.get_own_device: the store afterwards and the own device's id
get_own_device(st, p) ==
    IF OwnDevices(st) = {} THEN initialize_own_device(st, p)
    ELSE [st |-> st, id |-> CHOOSE id \in OwnDevices(st) : TRUE]

----------------------------------------------------------------------------
(* SyncedModel.save *)

\* get_uuid, were the id derived from the counter after this one
get_uuid_next(own_id, obj) ==
    uuid5(IF own_id # NoId THEN own_id ELSE ROOT_UUID_NAMESPACE, str(obj.counter + 1))

\* SyncedModel.get_uuid
get_uuid(own_id, obj) ==
    uuid5(IF own_id # NoId THEN own_id ELSE ROOT_UUID_NAMESPACE, str(obj.counter))

\* SyncedModel.sign(device): the instance signed
sign(st, p, obj, device) ==
    [obj EXCEPT !.signed_by = device,
                !.signature = crypto_sign(p, Representation(st, obj).text)]

ValidationErrors ==
    {"Imported models must be signed.", "Imported model's signature did not match."}

\* the last super().save() of a local save
save_local_stored(st, obj) ==
    [st |-> Persist(st, obj), obj |-> obj, exc |-> ""]

\* self.sign(device=own_device); reading a field may raise
save_local_sign(st, p, obj, own_id) ==
    IF Representation(st, obj).raised
    THEN [st |-> st, obj |-> [obj EXCEPT !.signed_by = own_id], exc |-> "DoesNotExist"]
    ELSE save_local_stored(st, sign(st, p, obj, own_id))

\* if not self.id: allocate the id and store the row a first time
save_local_id(st, p, obj, own_id) ==
    IF obj.id = NoId
    THEN save_local_sign(Persist(st, [obj EXCEPT !.id = get_uuid(own_id, obj)]), p,
                         [obj EXCEPT !.id = get_uuid(own_id, obj)], own_id)
    ELSE save_local_sign(st, p, obj, own_id)

\* self.counter = own_device.increment_and_get_counter()
save_local_counter(inc, p, obj, own_id) ==
    save_local_id(inc.st, p, [obj EXCEPT !.counter = inc.counter], own_id)

save_local_own(own, p, obj) ==
    save_local_counter(increment_and_get_counter(own.st, own.id), p, obj, own.id)

\* save(imported=False), run alone: [st, obj, exc]
save_local(st, p, obj) == save_local_own(get_own_device(st, p), p, obj)

\* save(imported=True), were a false verify() not to raise
save_imported_unverified(st, obj, v) ==
    IF v = "DoesNotExist" THEN [st |-> st, exc |-> "DoesNotExist"]
    ELSE [st |-> set_counter_position(Persist(st, obj), obj.signed_by, obj.counter),
          exc |-> ""]

\* the end of save(imported=True), v being what verify() gave
save_imported_verified(st, obj, v) ==
    IF v = "DoesNotExist" THEN [st |-> st, exc |-> "DoesNotExist"]
    ELSE IF v = "false"
    THEN [st |-> st, exc |-> "Imported model's signature did not match."]
    ELSE [st |-> set_counter_position(Persist(st, obj), obj.signed_by, obj.counter),
          exc |-> ""]

save_imported_own(st, obj) ==
    IF obj.signed_by = NoId THEN [st |-> st, exc |-> "Imported models must be signed."]
    ELSE save_imported_verified(st, obj, verify(st, obj))

\* save(imported=True): [st, exc]
save_imported(st, p, obj) == save_imported_own(get_own_device(st, p).st, obj)

\* if is_trusted: metadata.is_trusted = True
Device_save_trusted(r, id, is_trusted) ==
    IF r.exc = "" /\ is_trusted
    THEN [r EXCEPT !.st = PutMetadata(@, id, [get_metadata(@, id) EXCEPT !.is_trusted = TRUE])]
    ELSE r

\* Device.save(is_trusted, imported=True)
Device_save(st, p, obj, is_trusted) ==
    Device_save_trusted(save_imported(st, p, obj), obj.id, is_trusted)

----------------------------------------------------------------------------
(* Serialization: a serialized object is {model, pk, fields} *)

serialize(objs) ==
    [i \in 1..Len(objs) |->
        [model |-> objs[i].model, pk |-> objs[i].id,
         fields |-> [f \in DOMAIN objs[i] \ {"model", "id"} |-> objs[i][f]]]]

deserialize(data) ==
    [i \in 1..Len(data) |->
        [f \in DOMAIN data[i].fields \cup {"model", "id"} |->
            IF f = "model" THEN data[i].model
            ELSE IF f = "id" THEN data[i].pk
            ELSE data[i].fields[f]]]

----------------------------------------------------------------------------
(* Import purgatory *)

NextPk(st) ==
    IF DOMAIN st.purgatory = {} THEN 1
    ELSE 1 + CHOOSE k \in DOMAIN st.purgatory : \A j \in DOMAIN st.purgatory : j <= k

\* the body of the for loop: what the save of one model gave is counted
ImportOne(acc, model, r) ==
    IF r.exc = ""
    THEN [acc EXCEPT !.st = r.st, !.saved_model_count = @ + 1,
                     !.committed = @ \cup {model}]
    ELSE IF r.exc \in ValidationErrors
    THEN [acc EXCEPT !.st = r.st, !.exceptions = Append(@, r.exc),
                     !.unsaved_models = Append(@, model)]
    ELSE [acc EXCEPT !.st = r.st, !.exc = r.exc]

\* the for loop of save_serialized_models from the i-th model on; acc.exc is
\* an exception that is no ValidationError, which ends the loop and the call
RECURSIVE ImportLoop(_, _, _, _)
ImportLoop(acc, p, models, i) ==
    IF i > Len(models) \/ acc.exc # "" THEN acc
    ELSE ImportLoop(
             ImportOne(acc, models[i],
                       IF models[i].model = "Device"
                       THEN Device_save(acc.st, p, models[i], FALSE)
                       ELSE save_imported(acc.st, p, models[i])),
             p, models, i + 1)

\* ImportPurgatory.save of the row holding the unsaved models
purgatory_save(own, pk, row) ==
    [own.st EXCEPT !.purgatory =
        (pk :> [row EXCEPT !.counter = IF @ # 0 THEN @ ELSE get_counter(own.st, own.id)]) @@ @]

\* the end of save_serialized_models: acc is what the loop gave, purgatory the
\* row given (pk # 0) or a new ImportPurgatory()
save_serialized_end(acc, p, pk, purgatory) ==
    IF acc.exc # "" THEN acc.st
    ELSE IF acc.unsaved_models # <<>>
    THEN purgatory_save(get_own_device(acc.st, p),
                        IF pk # 0 THEN pk ELSE NextPk(acc.st),
                        [purgatory EXCEPT
                            !.serialized_models = serialize(acc.unsaved_models),
                            !.exceptions = acc.exceptions,
                            !.retry_attempts = @ + 1])
    ELSE IF pk # 0
    THEN [acc.st EXCEPT !.purgatory = [k \in DOMAIN @ \ {pk} |-> @[k]]]
    ELSE acc.st

save_serialized_result(acc, p, pk, purgatory, models) ==
    [st |-> save_serialized_end(acc, p, pk, purgatory),
     raised |-> acc.exc,
     unsaved_model_count |-> Len(acc.unsaved_models),
     saved_model_count |-> acc.saved_model_count,
     models |-> models,
     committed |-> acc.committed,
     unsaved_models |-> acc.unsaved_models]

save_serialized_loop(st, p, pk, purgatory, models) ==
    save_serialized_result(
        ImportLoop([st |-> st, unsaved_models |-> <<>>, exceptions |-> <<>>,
                    saved_model_count |-> 0, committed |-> {}, exc |-> ""],
                   p, models, 1),
        p, pk, purgatory, models)

\* save_serialized_models(data), data being serialized text (pk = 0) or the
\* purgatory row pk.  The result holds the store afterwards, the returned counts,
\* the exception that ended the call (if any), and the models saved and unsaved
save_serialized_models(st, p, data, pk) ==
    IF pk # 0
    THEN save_serialized_loop(st, p, pk, st.purgatory[pk],
                              deserialize(st.purgatory[pk].serialized_models))
    ELSE save_serialized_loop(st, p, pk,
                              [counter |-> 0, retry_attempts |-> 0,
                               serialized_models |-> <<>>, exceptions |-> <<>>],
                              deserialize(data))

----------------------------------------------------------------------------
(* Zones and the batch selector *)

\* Device.get_zone: the zone of the device's DeviceZone row, or none
Device_get_zone(st, id) ==
    IF \E r \in st.rows : r.model = "DeviceZone" /\ r.device = id
    THEN (CHOOSE r \in st.rows : r.model = "DeviceZone" /\ r.device = id).zone
    ELSE NoId

\* SyncedModel.in_zone, of a Device
Device_in_zone(st, id, zone) == zone = Device_get_zone(st, id)

\* SyncedModel.get_zone of a record: its own zone attribute, else the zone of
\* the device that signed it, else zone_fallback when that device is trusted;
\* "DoesNotExist" when reading self.signed_by raises
SyncedModel_get_zone(st, obj) ==
    IF Value(obj, "zone") # NoId THEN obj.zone
    ELSE IF obj.signed_by = NoId THEN NoId
    ELSE IF ~Exists(st, "Device", obj.signed_by) THEN "DoesNotExist"
    ELSE IF Device_get_zone(st, obj.signed_by) # NoId
    THEN Device_get_zone(st, obj.signed_by)
    ELSE IF get_metadata(st, obj.signed_by).is_trusted THEN obj.zone_fallback
    ELSE NoId

\* SyncedModel.in_zone of a record
SyncedModel_in_zone(st, obj, zone) == zone = SyncedModel_get_zone(st, obj)

\* SyncedModelManager.by_zone over the rows of one model class; a filter on
\* zone = None matches the rows with no such zone
by_zone(st, model, zone) ==
    {r \in st.rows :
        /\ r.model = model
        /\ \/ IF zone = NoId THEN Device_get_zone(st, r.signed_by) = NoId
              ELSE \E z \in st.rows :
                      z.model = "DeviceZone" /\ z.device = r.signed_by /\ z.zone = zone
           \/ /\ r.signed_by \in DOMAIN st.metadata
              /\ st.metadata[r.signed_by].is_trusted
              /\ r.zone_fallback = zone}

\* the rows of a queryset as a list, by counter
RECURSIVE AsList(_)
AsList(S) ==
    IF S = {} THEN <<>>
    ELSE <<CHOOSE x \in S : \A y \in S : x.counter <= y.counter>>
         \o AsList(S \ {CHOOSE x \in S : \A y \in S : x.counter <= y.counter})

\* the keys of device_counters as a list
RECURSIVE KeyList(_)
KeyList(S) ==
    IF S = {} THEN <<>>
    ELSE <<CHOOSE x \in S : TRUE>> \o KeyList(S \ {CHOOSE x \in S : TRUE})

\* the queryset, were it not filtered by signed_by=device
Queryset_unfiltered(st, model, device, zone) ==
    IF Device_in_zone(st, device, zone)
    THEN {r \in st.rows : r.model = model}
    ELSE IF get_metadata(st, device).is_trusted
    THEN {r \in st.rows : r.model = model /\ r.zone_fallback = zone}
    ELSE {}

\* the queryset of one model class and one device in the while loop: empty
\* when the device is skipped
Queryset(st, model, device, zone) ==
    IF Device_in_zone(st, device, zone)
    THEN {r \in st.rows : r.model = model /\ r.signed_by = device}
    ELSE IF get_metadata(st, device).is_trusted
    THEN {r \in st.rows : r.model = model /\ r.signed_by = device /\ r.zone_fallback = zone}
    ELSE {}

\* the window, were its upper end counter__lte
Window_lte(queryset, counter, limit, boost) ==
    {r \in queryset : r.counter >= counter /\ r.counter <= counter + limit + boost}

\* queryset.filter(counter__gte=counter, counter__lt=counter+limit+boost)
Window(queryset, counter, limit, boost) ==
    {r \in queryset : r.counter >= counter /\ r.counter < counter + limit + boost}

\* queryset.filter(counter__gte=counter+limit+boost).count() > 0
Remaining(queryset, counter, limit, boost) ==
    \E r \in queryset : r.counter >= counter + limit + boost

\* the two for loops from the m-th model class and the d-th device on
RECURSIVE SelectModels(_, _, _, _, _, _, _, _)
SelectModels(st, devices, device_counters, limit, zone, boost, m, d) ==
    IF m > Len(syncing_models) THEN <<>>
    ELSE IF d > Len(devices)
    THEN SelectModels(st, devices, device_counters, limit, zone, boost, m + 1, 1)
    ELSE AsList(Window(Queryset(st, syncing_models[m], devices[d], zone),
                       device_counters[devices[d]], limit, boost))
         \o SelectModels(st, devices, device_counters, limit, zone, boost, m, d + 1)

instances_remaining(st, devices, device_counters, limit, zone, boost) ==
    \E m \in 1..Len(syncing_models), d \in 1..Len(devices) :
        Remaining(Queryset(st, syncing_models[m], devices[d], zone),
                  device_counters[devices[d]], limit, boost)

RECURSIVE SelectLoop(_, _, _, _, _, _)
\* the end of a round, were the loop to end after the first
SelectBreak_once(st, devices, device_counters, limit, zone, boost, models) ==
    [models |-> models, boost |-> boost]

\* if len(models) > 0 or not instances_remaining: break; else boost += limit
SelectBreak(st, devices, device_counters, limit, zone, boost, models) ==
    IF Len(models) > 0
       \/ ~instances_remaining(st, devices, device_counters, limit, zone, boost)
    THEN [models |-> models, boost |-> boost]
    ELSE SelectLoop(st, devices, device_counters, limit, zone, boost + limit)

\* the while loop
SelectLoop(st, devices, device_counters, limit, zone, boost) ==
    SelectBreak(st, devices, device_counters, limit, zone, boost,
                SelectModels(st, devices, device_counters, limit, zone, boost, 1, 1))

\* serialize the models found
select_serialized(st, found) ==
    [st |-> st, models |-> serialize(found.models), boost |-> found.boost,
     count |-> Len(found.models)]

\* remove the requested devices that do not exist or are not in the zone
select_kept(st, given, limit, zone) ==
    select_serialized(st,
        SelectLoop(st,
                   KeyList({id \in DOMAIN given :
                               /\ Exists(st, "Device", id)
                               /\ \/ Device_in_zone(st, id, zone)
                                  \/ get_metadata(st, id).is_trusted}),
                   given, limit, zone, 0))

\* if device_counters is None: every device of the zone, from zero
select_zone(st, device_counters, limit, zone) ==
    IF device_counters = {}
    THEN select_kept(st, [id \in {r.id : r \in by_zone(st, "Device", zone)} |-> 0],
                     limit, zone)
    ELSE select_kept(st, CHOOSE m \in device_counters : TRUE, limit, zone)

select_own(own, device_counters, limit) ==
    select_zone(own.st, device_counters, limit, Device_get_zone(own.st, own.id))

\* get_serialized_models(device_counters, limit, zone): device_counters is {}
\* for None and {map} otherwise, zone is NoId for None.  The result holds the
\* store afterwards (the call may create the own device), the serialized models,
\* their count and the final boost
get_serialized_models(st, p, device_counters, limit, zone) ==
    IF zone = NoId THEN select_own(get_own_device(st, p), device_counters, limit)
    ELSE select_zone(st, device_counters, limit, zone)

\* get_device_counters(zone)
get_device_counters(st, zone) ==
    [id \in {r.id : r \in by_zone(st, "Device", zone)} |->
        get_metadata(st, id).counter_position]

----------------------------------------------------------------------------
(* Operations on the stores, one at a time.  Device A authors records;     *)
(* device B receives what the transport delivers of them, and edits what   *)
(* it has received.                                                        *)

Idle == [op |-> "none"]
NoPull == [phase |-> "off"]
NoSavers == <<>>

OwnId(st) == IF OwnDevices(st) = {} THEN NoId ELSE CHOOSE id \in OwnDevices(st) : TRUE

\* the new instances a user of store st may save
NewObjects(st) ==
    {NewInstance("Facility", [name |-> "f"]), NewInstance("Zone", [name |-> "z"])}
    \cup {NewInstance("FacilityUser", [facility |-> f.id, username |-> "alice"]) :
             f \in {r \in st.rows : r.model = "Facility"}}

\* (facility, username) is unique among the users of a store
UniqueUser(st, obj) ==
    obj.model = "FacilityUser" =>
        \A r \in st.rows :
            r.model = "FacilityUser" =>
                ~(r.facility = obj.facility /\ r.username = obj.username)

\* the highest counter per signer among the models an import committed, over hw
RECURSIVE HighWater(_, _)
HighWater(hw, committed) ==
    IF committed = {} THEN hw
    ELSE HighWater(
             [d \in DOMAIN hw \cup {(CHOOSE o \in committed : TRUE).signed_by} |->
                 IF d = (CHOOSE o \in committed : TRUE).signed_by
                    /\ (d \notin DOMAIN hw \/ hw[d] < (CHOOSE o \in committed : TRUE).counter)
                 THEN (CHOOSE o \in committed : TRUE).counter
                 ELSE hw[d]],
             committed \ {CHOOSE o \in committed : TRUE})

\* what an import returned, for the next state's last
Outcome(op, r) ==
    [op |-> op, raised |-> r.raised,
     saved_model_count |-> r.saved_model_count,
     unsaved_model_count |-> r.unsaved_model_count,
     committed |-> {o.model : o \in r.committed},
     unsaved |-> {r.unsaved_models[i].model : i \in 1..Len(r.unsaved_models)}]

LocalSaved(p, r) ==
    /\ db' = [db EXCEPT ![p] = r.st]
    /\ origin' = (r.obj.id :> [dev |-> OwnId(r.st),
                               counter |-> get_counter(r.st, OwnId(r.st))]) @@ origin
    /\ last' = [op |-> "save", store |-> p, id |-> r.obj.id, exc |-> r.exc]

\* obj.save() of a new instance
LocalSave(p, obj) ==
    /\ get_counter(db[p], OwnId(db[p])) < MaxCounter
    /\ UniqueUser(db[p], obj)
    /\ \E r \in {save_local(db[p], p, obj)} : LocalSaved(p, r)
    /\ UNCHANGED <<seen, pull, pc, loc>>

Resaved(p, r) ==
    /\ db' = [db EXCEPT ![p] = r.st]
    /\ last' = [op |-> "resave", store |-> p, id |-> r.obj.id, exc |-> r.exc]

\* obj.save() of a stored row
Resave(p, row, bound) ==
    /\ get_counter(db[p], OwnId(db[p])) < bound
    /\ \E r \in {save_local(db[p], p, row)} : Resaved(p, r)
    /\ UNCHANGED <<origin, seen, pull, pc, loc>>

\* a record altered, or stripped of its signature, on the way
Tampered(r) == [r EXCEPT !.counter = @ + 1]
Unsigned(r) == [r EXCEPT !.signed_by = NoId, !.signature = NoSignature]
Altered(st) ==
    {Tampered(r) : r \in {x \in st.rows : x.model # "Device"}}
    \cup {Unsigned(r) : r \in {x \in st.rows : x.model # "Device"}}

Batches(S) == UNION {[1..n -> S] : n \in 1..MaxBatch}

\* what the transport may deliver from store st: batches of its rows, and
\* single altered records
Deliverable(st) == Batches(st.rows) \cup {<<r>> : r \in Altered(st)}

ImportDone(op, p, r) ==
    /\ db' = [db EXCEPT ![p] = r.st]
    /\ seen' = [seen EXCEPT ![p] = HighWater(@, r.committed)]
    /\ last' = Outcome(op, r)

\* a new purgatory row fits
Fits(st, r) ==
    r.unsaved_model_count > 0 => Cardinality(DOMAIN st.purgatory) < MaxPurgatory

\* save_serialized_models(text)
Import(p, batch) ==
    /\ \E r \in {save_serialized_models(db[p], p, serialize(batch), 0)} :
          Fits(db[p], r) /\ ImportDone("import", p, r)
    /\ UNCHANGED <<origin, pull, pc, loc>>

\* save_serialized_models(purgatory row)
Retry(p, pk) ==
    /\ db[p].purgatory[pk].retry_attempts <= MaxRetry
    /\ \E r \in {save_serialized_models(db[p], p, <<>>, pk)} : ImportDone("retry", p, r)
    /\ UNCHANGED <<origin, pull, pc, loc>>

Trusted(p, device, r) ==
    /\ db' = [db EXCEPT ![p] = r.st]
    /\ seen' = [seen EXCEPT ![p] =
                   IF r.exc = "" THEN HighWater(@, {device}) ELSE @]
    /\ last' = [op |-> "trust", store |-> p, id |-> device.id, exc |-> r.exc]

\* device.save(is_trusted=True, imported=True) of another store's own Device
TrustDevice(p, device) ==
    /\ \E r \in {Device_save(db[p], p, device, TRUE)} : Trusted(p, device, r)
    /\ UNCHANGED <<origin, pull, pc, loc>>

Records(st) == {r \in st.rows : r.model # "Device"}
DeviceRows(st) == {r \in st.rows : r.model = "Device"}
OwnDeviceRow(st) == {r \in st.rows : r.model = "Device" /\ r.id = OwnId(st)}

Init ==
    /\ db = [p \in Stores |-> EmptyStore]
    /\ last = Idle
    /\ origin = <<>>
    /\ seen = [p \in Stores |-> <<>>]
    /\ pull = NoPull
    /\ pc = NoSavers
    /\ loc = NoSavers

Next ==
    \/ \E obj \in NewObjects(db["A"]) : LocalSave("A", obj)
    \/ \E row \in Records(db["A"]) : Resave("A", row, MaxCounter)
    \/ \E row \in Records(db["B"]) : Resave("B", row, MaxResave)
    \/ \E batch \in Deliverable(db["A"]) : Import("B", batch)
    \/ \E pk \in DOMAIN db["B"].purgatory : Retry("B", pk)
    \/ \E device \in OwnDeviceRow(db["A"]) : TrustDevice("B", device)

Spec == Init /\ [][Next]_vars

----------------------------------------------------------------------------
(* A pull: device A holds records, device B, which knows A's Device, fetches *)
(* them round by round.  Each round B sends its device counters, A selects  *)
(* a batch with get_serialized_models, and B imports it.                    *)

\* A saves one more Facility before the pull begins
PullSave ==
    /\ pull.phase = "off"
    /\ Cardinality(Records(db["A"])) < MaxRecords
    /\ \E r \in {save_local(db["A"], "A",
                    NewInstance("Facility",
                                [name |-> str(Cardinality(Records(db["A"])) + 1)]))} :
          LocalSaved("A", r)
    /\ UNCHANGED <<seen, pull, pc, loc>>

\* B registers A's Device and the pull begins, with the limit given
PullStart(limit) ==
    /\ pull.phase = "off"
    /\ Records(db["A"]) # {}
    /\ \E r \in {save_serialized_models(db["B"], "B",
                    serialize(AsList(OwnDeviceRow(db["A"]))), 0)} :
          /\ db' = [db EXCEPT !["B"] = r.st]
          /\ last' = Outcome("register", r)
          /\ pull' = [phase |-> "run", limit |-> limit, round |-> 0, sent |-> {},
                      batch |-> <<>>, dup |-> FALSE, stalled |-> FALSE,
                      again |-> FALSE, before |-> r.st]
    /\ UNCHANGED <<origin, seen, pc, loc>>

Pks(data) == {data[i].pk : i \in 1..Len(data)}

\* what a round leaves: A's store after selecting g, B's after the import r
PullDone(known, g, r) ==
    /\ db' = [db EXCEPT !["A"] = g.st, !["B"] = r.st]
    /\ last' = Outcome("import", r)
    /\ pull' = [pull EXCEPT
                   !.round = @ + 1,
                   !.sent = @ \cup Pks(g.models),
                   !.batch = g.models,
                   !.dup = @ \/ (Pks(g.models) \cap pull.sent # {}),
                   !.stalled = (get_counter(r.st, OwnId(db["A"])) = known),
                   !.again = FALSE,
                   !.before = r.st]

PullImport(known, g) ==
    \E r \in {save_serialized_models(db["B"], "B", g.models, 0)} : PullDone(known, g, r)

PullSelect(device_counters) ==
    \E g \in {get_serialized_models(db["A"], "A", {device_counters}, pull.limit, NoId)} :
        PullImport(device_counters[OwnId(db["A"])], g)

\* one round: get_device_counters on B, get_serialized_models on A,
\* save_serialized_models on B
PullRound ==
    /\ pull.phase = "run"
    /\ pull.round < MaxRounds
    /\ PullSelect(get_device_counters(db["B"], NoId))
    /\ UNCHANGED <<origin, seen, pc, loc>>

\* B imports the last batch a second time
ReImport ==
    /\ pull.phase = "run"
    /\ pull.round > 0
    /\ ~pull.again
    /\ \E r \in {save_serialized_models(db["B"], "B", pull.batch, 0)} :
          /\ db' = [db EXCEPT !["B"] = r.st]
          /\ last' = Outcome("import", r)
          /\ pull' = [pull EXCEPT !.again = TRUE, !.before = db["B"]]
    /\ UNCHANGED <<origin, seen, pc, loc>>

NextPull ==
    \/ PullSave
    \/ \E limit \in 1..MaxLimit : PullStart(limit)
    \/ PullRound
    \/ ReImport

SpecPull == Init /\ [][NextPull]_vars

----------------------------------------------------------------------------
(* Concurrent local saves on device A: each saver runs SyncedModel.save,    *)
(* one statement touching the store at a time.                              *)

Savers == DOMAIN pc

\* A saves a record alone, before the concurrent saves begin
ConcSave ==
    /\ Savers = {}
    /\ get_counter(db["A"], OwnId(db["A"])) < MaxPrior
    /\ \E r \in {save_local(db["A"], "A",
                    NewInstance("Facility", [name |-> "f"]))} :
          LocalSaved("A", r)
    /\ UNCHANGED <<seen, pull, pc, loc>>

\* n savers call save() on distinct new records; own_device = get_own_device()
ConcStart(n) ==
    /\ Savers = {}
    /\ \E own \in {get_own_device(db["A"], "A")} :
          /\ db' = [db EXCEPT !["A"] = own.st]
          /\ last' = [op |-> "concurrent", k |-> get_counter(own.st, own.id), n |-> n]
          /\ loc' = [i \in 1..n |->
                        [counter_position |-> 0,
                         obj |-> NewInstance("Facility", [name |-> str(i)])]]
    /\ pc' = [i \in 1..n |-> "read"]
    /\ UNCHANGED <<origin, seen, pull>>

\* increment_and_get_counter: metadata = self.get_metadata()
SaverRead(i) ==
    /\ pc[i] = "read"
    /\ loc' = [loc EXCEPT ![i].counter_position =
                   get_metadata(db["A"], OwnId(db["A"])).counter_position]
    /\ pc' = [pc EXCEPT ![i] = "write"]
    /\ UNCHANGED <<db, last, origin, seen, pull>>

\* increment_and_get_counter: metadata.counter_position += 1; metadata.save();
\* and self.counter takes the value returned
SaverWrite(i) ==
    /\ pc[i] = "write"
    /\ db' = [db EXCEPT !["A"] =
                  PutMetadata(@, OwnId(@),
                      [get_metadata(@, OwnId(@)) EXCEPT
                          !.counter_position = loc[i].counter_position + 1])]
    /\ loc' = [loc EXCEPT ![i].counter_position = @ + 1,
                          ![i].obj.counter = loc[i].counter_position + 1]
    /\ pc' = [pc EXCEPT ![i] = "insert"]
    /\ UNCHANGED <<last, origin, seen, pull>>

\* self.id = self.get_uuid(); super().save()
SaverInsert(i) ==
    /\ pc[i] = "insert"
    /\ db' = [db EXCEPT !["A"] =
                  Persist(@, [loc[i].obj EXCEPT !.id = get_uuid(OwnId(db["A"]), loc[i].obj)])]
    /\ loc' = [loc EXCEPT ![i].obj.id = get_uuid(OwnId(db["A"]), loc[i].obj)]
    /\ pc' = [pc EXCEPT ![i] = "sign"]
    /\ UNCHANGED <<last, origin, seen, pull>>

\* self.sign(device=own_device); super().save()
SaverSign(i) ==
    /\ pc[i] = "sign"
    /\ \E r \in {save_local_sign(db["A"], "A", loc[i].obj, OwnId(db["A"]))} :
          /\ db' = [db EXCEPT !["A"] = r.st]
          /\ loc' = [loc EXCEPT ![i].obj = r.obj]
    /\ pc' = [pc EXCEPT ![i] = "done"]
    /\ UNCHANGED <<last, origin, seen, pull>>

\* the save ends with an exception between the two super().save() calls
SaverFail(i) ==
    /\ pc[i] = "sign"
    /\ pc' = [pc EXCEPT ![i] = "failed"]
    /\ UNCHANGED <<db, last, loc, origin, seen, pull>>

\* the device_counters a peer may send to A: None, or a map naming A's device
OwnCounterMaps(st) == {{}} \cup {{[d \in {OwnId(st)} |-> c]} : c \in 0..MaxPrior}

\* get_serialized_models(device_counters, limit, include_count=True) on A
\* while the savers run
ConcSelect(device_counters, limit) ==
    /\ Savers # {}
    /\ \E g \in {get_serialized_models(db["A"], "A", device_counters, limit, NoId)} :
          pull' = [phase |-> "select", count |-> g.count]
    /\ UNCHANGED <<db, last, origin, seen, pc, loc>>

NextConc ==
    \/ ConcSave
    \/ \E n \in 1..MaxSavers : ConcStart(n)
    \/ \E i \in Savers : SaverRead(i)
    \/ \E i \in Savers : SaverWrite(i)
    \/ \E i \in Savers : SaverInsert(i)
    \/ \E i \in Savers : SaverSign(i)
    \/ \E i \in Savers : SaverFail(i)
    \/ \E device_counters \in OwnCounterMaps(db["A"]), limit \in 1..MaxLimit :
          ConcSelect(device_counters, limit)

SpecConc == Init /\ [][NextConc]_vars

----------------------------------------------------------------------------
(* Concurrent get_own_device() calls on the fresh store of A, one store     *)
(* access at a time.  A save of an instance whose primary key is set looks  *)
(* the row up and then updates or inserts it; an insert of a row whose key  *)
(* (Device.id, DeviceMetadata.device) is taken raises IntegrityError.       *)

Callers == DOMAIN pc

\* n callers enter get_own_device()
BootStart(n) ==
    /\ pc = NoSavers
    /\ db["A"] = EmptyStore
    /\ pc' = [i \in 1..n |-> "count"]
    /\ loc' = [i \in 1..n |->
                  [own |-> NewInstance("Device", [name |-> "", public_key |-> get_public_key("A")]),
                   exists |-> FALSE,
                   metadata |-> get_metadata(EmptyStore, NoId),
                   result |-> NoId]]
    /\ last' = [op |-> "bootstrap", n |-> n]
    /\ UNCHANGED <<db, origin, seen, pull>>

\* devices = DeviceMetadata.objects.filter(is_own_device=True); devices.count():
\* return devices[0].device, or begin initialize_own_device up to self.get_uuid()
BootCount(i) ==
    /\ pc[i] = "count"
    /\ IF OwnDevices(db["A"]) # {}
       THEN /\ loc' = [loc EXCEPT ![i].result = CHOOSE id \in OwnDevices(db["A"]) : TRUE]
            /\ pc' = [pc EXCEPT ![i] = "done"]
       ELSE /\ loc' = [loc EXCEPT ![i].own =
                          own_device_id(db["A"], own_device_new(db["A"], "A", loc[i].own))]
            /\ pc' = [pc EXCEPT ![i] = "check"]
    /\ UNCHANGED <<db, last, origin, seen, pull>>

\* the first super().save(): is there a row of this id?
BootCheck(i) ==
    /\ pc[i] = "check"
    /\ loc' = [loc EXCEPT ![i].exists = Exists(db["A"], "Device", loc[i].own.id)]
    /\ pc' = [pc EXCEPT ![i] = "insert"]
    /\ UNCHANGED <<db, last, origin, seen, pull>>

\* the first super().save(): update the row found, or insert
BootInsert(i) ==
    /\ pc[i] = "insert"
    /\ IF ~loc[i].exists /\ Exists(db["A"], "Device", loc[i].own.id)
       THEN /\ pc' = [pc EXCEPT ![i] = "IntegrityError"]
            /\ UNCHANGED db
       ELSE /\ db' = [db EXCEPT !["A"] = Persist(@, loc[i].own)]
            /\ pc' = [pc EXCEPT ![i] = "sign"]
    /\ UNCHANGED <<last, loc, origin, seen, pull>>

\* self.sign(device=own_device); super().save()
BootSign(i) ==
    /\ pc[i] = "sign"
    /\ db' = [db EXCEPT !["A"] = Persist(@, own_device_signed(@, "A", loc[i].own))]
    /\ loc' = [loc EXCEPT ![i].own = own_device_signed(db["A"], "A", loc[i].own)]
    /\ pc' = [pc EXCEPT ![i] = "metadata"]
    /\ UNCHANGED <<last, origin, seen, pull>>

\* metadata = own_device.get_metadata()
BootMetadata(i) ==
    /\ pc[i] = "metadata"
    /\ loc' = [loc EXCEPT ![i].exists = loc[i].own.id \in DOMAIN db["A"].metadata,
                          ![i].metadata = get_metadata(db["A"], loc[i].own.id)]
    /\ pc' = [pc EXCEPT ![i] = "flag"]
    /\ UNCHANGED <<db, last, origin, seen, pull>>

\* metadata.is_own_device = True; metadata.is_trusted = settings.CENTRAL_SERVER;
\* metadata.save(): update the row read, or insert; return own_device
BootFlag(i) ==
    /\ pc[i] = "flag"
    /\ IF ~loc[i].exists /\ loc[i].own.id \in DOMAIN db["A"].metadata
       THEN /\ pc' = [pc EXCEPT ![i] = "IntegrityError"]
            /\ UNCHANGED <<db, loc>>
       ELSE /\ db' = [db EXCEPT !["A"] =
                         PutMetadata(@, loc[i].own.id,
                             [loc[i].metadata EXCEPT !.is_own_device = TRUE,
                                                     !.is_trusted = CENTRAL_SERVER("A")])]
            /\ loc' = [loc EXCEPT ![i].result = loc[i].own.id]
            /\ pc' = [pc EXCEPT ![i] = "done"]
    /\ UNCHANGED <<last, origin, seen, pull>>

NextBoot ==
    \/ \E n \in 1..MaxCallers : BootStart(n)
    \/ \E i \in Callers : BootCount(i)
    \/ \E i \in Callers : BootCheck(i)
    \/ \E i \in Callers : BootInsert(i)
    \/ \E i \in Callers : BootSign(i)
    \/ \E i \in Callers : BootMetadata(i)
    \/ \E i \in Callers : BootFlag(i)

SpecBoot == Init /\ [][NextBoot]_vars

----------------------------------------------------------------------------
(* The batch selector: device A authors zones, zone memberships and records *)
(* with a fallback zone; device B registers A's Device, trusted or not,     *)
(* imports what A holds, authors records of its own, and answers            *)
(* get_serialized_models.                                                   *)

ZoneRows(st) == {r \in st.rows : r.model = "Zone"}
Zones(st) == {r.id : r \in ZoneRows(st)}
Devices(st) == {r.id : r \in DeviceRows(st)}

\* the instances the user of the authoring store may save: zones first, then
\* a zone membership of a device, then records with or without a fallback zone
ZoneObjects(st) ==
    {NewInstance("Zone", [name |-> str(Cardinality(Zones(st)) + 1)]) :
        n \in {k \in {1} : Cardinality(Zones(st)) < MaxZones /\ Records(st) = ZoneRows(st)}}
    \cup {NewInstance("DeviceZone", [device |-> d, zone |-> z]) :
             d \in {x \in Devices(st) : Records(st) = ZoneRows(st)}, z \in Zones(st)}
    \cup {NewInstance("SyncedLog", [category |-> "c", zone_fallback |-> z]) :
             z \in Zones(st) \cup {NoId}}

\* the instances the user of the answering store may save: a facility, then logs
PeerObjects(st) ==
    IF Records(st) = {} THEN {NewInstance("Facility", [name |-> "f"])}
    ELSE {NewInstance("SyncedLog", [category |-> "c"])}

SelSaved(p, r) ==
    /\ r.exc = ""
    /\ db' = [db EXCEPT ![p] = r.st]
    /\ last' = [op |-> "save", store |-> p, id |-> r.obj.id, exc |-> r.exc]

\* obj.save() on A
SelAuthor(obj) ==
    /\ get_counter(db["A"], OwnId(db["A"])) < MaxAuthored
    /\ \E r \in {save_local(db["A"], "A", obj)} : SelSaved("A", r)
    /\ UNCHANGED <<origin, seen, pull, pc, loc>>

\* obj.save() on B, before it registers A's Device
SelPeer(obj) ==
    /\ get_counter(db["B"], OwnId(db["B"])) < MaxPeer
    /\ ~Exists(db["B"], "Device", OwnId(db["A"]))
    /\ \E r \in {save_local(db["B"], "B", obj)} : SelSaved("B", r)
    /\ UNCHANGED <<origin, seen, pull, pc, loc>>

\* device.save(is_trusted, imported=True) on store p of store q's own Device
SelRegister(p, q, is_trusted) ==
    /\ OwnDeviceRow(db[q]) # {}
    /\ ~Exists(db[p], "Device", OwnId(db[q]))
    /\ \E r \in {Device_save(db[p], p, CHOOSE d \in OwnDeviceRow(db[q]) : TRUE, is_trusted)} :
          /\ r.exc = ""
          /\ db' = [db EXCEPT ![p] = r.st]
          /\ last' = [op |-> "register", store |-> p, exc |-> r.exc]
    /\ UNCHANGED <<origin, seen, pull, pc, loc>>

\* B holds records A signed
Synced(st, device) == \E r \in Records(st) : r.signed_by = device

\* save_serialized_models on B of every record A holds, oldest first
SelImport ==
    /\ get_counter(db["A"], OwnId(db["A"])) = MaxAuthored
    /\ Exists(db["B"], "Device", OwnId(db["A"]))
    /\ ~Synced(db["B"], OwnId(db["A"]))
    /\ DOMAIN db["B"].purgatory = {}
    /\ \E r \in {save_serialized_models(db["B"], "B",
                    serialize(AsList(Records(db["A"]))), 0)} :
          /\ r.raised = ""
          /\ db' = [db EXCEPT !["B"] = r.st]
          /\ last' = Outcome("import", r)
    /\ UNCHANGED <<origin, seen, pull, pc, loc>>

\* the device_counters a peer may send: None ({}), or a map over some devices
CounterMaps(st) ==
    {{}} \cup {{m} : m \in UNION {[S -> 0..MaxKnown] : S \in SUBSET Devices(st) \ {{}}}}

\* the zone a peer may name: None (NoId), or a zone of the store
ZoneArgs(st) == Zones(st) \cup {NoId}

\* get_serialized_models(device_counters, limit, zone, include_count=True) on B
Select(device_counters, limit, zone) ==
    /\ last.op # "select"
    /\ Synced(db["B"], OwnId(db["A"]))
    /\ \E g \in {get_serialized_models(db["B"], "B", device_counters, limit, zone)} :
          /\ db' = [db EXCEPT !["B"] = g.st]
          /\ last' = [op |-> "select", zone |-> zone, limit |-> limit,
                      none |-> device_counters = {},
                      count |-> g.count, boost |-> g.boost]
    /\ UNCHANGED <<origin, seen, pull, pc, loc>>

NextSelect ==
    \/ \E obj \in ZoneObjects(db["A"]) : SelAuthor(obj)
    \/ \E obj \in PeerObjects(db["B"]) : SelPeer(obj)
    \/ \E is_trusted \in BOOLEAN : SelRegister("B", "A", is_trusted)
    \/ SelRegister("A", "B", FALSE)
    \/ SelImport
    \/ \E device_counters \in CounterMaps(db["B"]), limit \in 1..MaxLimit,
          zone \in ZoneArgs(db["B"]) : Select(device_counters, limit, zone)

SpecSelect == Init /\ [][NextSelect]_vars

----------------------------------------------------------------------------
(* The sync session handshake between client A and server B.  SyncSession   *)
(* rows live in the server's store; the client's session object, the reply  *)
(* and the signatures on the way are the session's locals.  The network may *)
(* replace a signature on the way.                                          *)

\* a new SyncSession(client_nonce, client_device)
NewSession(client_nonce, client_device) ==
    [model |-> "SyncSession", id |-> client_nonce, client_nonce |-> client_nonce,
     client_device |-> client_device, server_nonce |-> "", server_device |-> NoId,
     verified |-> FALSE, closed |-> FALSE]

\* SyncSession._hashable_representation, were the server nonce left out
SyncSession_hashable_representation_no_nonce(session) ==
    <<session.client_nonce, ":", session.client_device, ":", ":", session.server_device>>

\* SyncSession._hashable_representation: "%s:%s:%s:%s"
SyncSession_hashable_representation(session) ==
    <<session.client_nonce, ":", session.client_device, ":",
      session.server_nonce, ":", session.server_device>>

\* SyncSession._verify_signature, device being a Device id of the store
SyncSession_verify_signature(st, session, device, signature) ==
    crypto_verify(SyncSession_hashable_representation(session), signature,
                  Row(st, "Device", device).public_key)

verify_client_signature(st, session, signature) ==
    SyncSession_verify_signature(st, session, session.client_device, signature)

verify_server_signature(st, session, signature) ==
    SyncSession_verify_signature(st, session, session.server_device, signature)

\* SyncSession.sign, by the process that holds the session
SyncSession_sign(p, session) ==
    crypto_sign(p, SyncSession_hashable_representation(session))

Sessions == DOMAIN pc

\* Device.get_own_device() on store p, the first time
SessOwn(p) ==
    /\ OwnDevices(db[p]) = {}
    /\ db' = [db EXCEPT ![p] = get_own_device(@, p).st]
    /\ last' = [op |-> "own", store |-> p]
    /\ UNCHANGED <<origin, seen, pull, pc, loc>>

\* step 1: the client generates client_nonce and posts it with its device
SessPost ==
    /\ Len(pc) < MaxSessions
    /\ OwnDevices(db["A"]) # {}
    /\ pc' = Append(pc, "posted")
    /\ loc' = Append(loc, [session |-> NewSession(str(Len(pc) + 1), OwnId(db["A"])),
                           server_signature |-> NoSignature,
                           client_signature |-> NoSignature,
                           forged |-> ""])
    /\ last' = [op |-> "post", n |-> Len(pc) + 1]
    /\ UNCHANGED <<db, origin, seen, pull>>

\* the half-session the server persists
HalfSession(st, session, server_nonce) ==
    [session EXCEPT !.server_nonce = server_nonce, !.server_device = OwnId(st)]

\* step 2: the server checks that it knows the client device, generates
\* server_nonce, persists the half-session and returns it with its signature
SessAccept(n) ==
    /\ pc[n] = "posted"
    /\ OwnDevices(db["B"]) # {}
    /\ Exists(db["B"], "Device", loc[n].session.client_device)
    /\ db' = [db EXCEPT !["B"] =
                 Persist(@, HalfSession(@, loc[n].session, str(n + MaxSessions)))]
    /\ loc' = [loc EXCEPT
                  ![n].session = HalfSession(db["B"], @, str(n + MaxSessions)),
                  ![n].server_signature =
                      SyncSession_sign("B", HalfSession(db["B"], loc[n].session,
                                                        str(n + MaxSessions)))]
    /\ pc' = [pc EXCEPT ![n] = "replied"]
    /\ last' = [op |-> "accept", n |-> n]
    /\ UNCHANGED <<origin, seen, pull>>

\* the sessions that differ from this one in one of the four components
OtherSessions(session) ==
    {[session EXCEPT !.client_nonce = "0"], [session EXCEPT !.client_device = session.server_device],
     [session EXCEPT !.server_nonce = "0"], [session EXCEPT !.server_device = session.client_device]}

\* what may take a signature's place: the signature altered, the signature of
\* another device over the same session, the signer's over another session
Forgeries(p, session, signature) ==
    {[kind |-> "altered", signature |-> [signature EXCEPT !.msg = <<"altered">>]]}
    \cup {[kind |-> "other device", signature |-> SyncSession_sign(q, session)] :
             q \in {"A", "B", "C"} \ {p}}
    \cup {[kind |-> "other session", signature |-> SyncSession_sign(p, other)] :
             other \in OtherSessions(session)}

\* the network replaces the signature on the way
SessForge(n) ==
    /\ loc[n].forged = ""
    /\ \/ /\ pc[n] = "replied"
          /\ \E f \in Forgeries("B", loc[n].session, loc[n].server_signature) :
                loc' = [loc EXCEPT ![n].server_signature = f.signature,
                                   ![n].forged = f.kind]
       \/ /\ pc[n] = "signed"
          /\ \E f \in Forgeries("A", loc[n].session, loc[n].client_signature) :
                loc' = [loc EXCEPT ![n].client_signature = f.signature,
                                   ![n].forged = f.kind]
    /\ last' = [op |-> "forge", n |-> n]
    /\ UNCHANGED <<db, origin, seen, pull, pc>>

\* step 3: the client verifies the server signature against the server
\* device's public key, signs the same four-tuple and posts its signature
SessClientVerify(n) ==
    /\ pc[n] = "replied"
    /\ Exists(db["A"], "Device", loc[n].session.server_device)
    /\ IF verify_server_signature(db["A"], loc[n].session, loc[n].server_signature)
       THEN /\ loc' = [loc EXCEPT ![n].client_signature = SyncSession_sign("A", loc[n].session)]
            /\ pc' = [pc EXCEPT ![n] = "signed"]
       ELSE /\ pc' = [pc EXCEPT ![n] = "refused"]
            /\ UNCHANGED loc
    /\ last' = [op |-> "client verify", n |-> n]
    /\ UNCHANGED <<db, origin, seen, pull>>

\* step 4: the server verifies the client signature; on success verified = true
SessServerVerify(n) ==
    /\ pc[n] = "signed"
    /\ IF verify_client_signature(db["B"], Row(db["B"], "SyncSession", loc[n].session.id),
                                  loc[n].client_signature)
       THEN /\ db' = [db EXCEPT !["B"] =
                         Persist(@, [Row(@, "SyncSession", loc[n].session.id)
                                        EXCEPT !.verified = TRUE])]
            /\ pc' = [pc EXCEPT ![n] = "verified"]
       ELSE /\ pc' = [pc EXCEPT ![n] = "rejected"]
            /\ UNCHANGED db
    /\ last' = [op |-> "server verify", n |-> n]
    /\ UNCHANGED <<origin, seen, pull, loc>>

\* a record-exchange request on the session: accepted only if verified
SessExchange(n) ==
    /\ pc[n] # "posted"
    /\ last.op # "exchange"
    /\ last' = [op |-> "exchange", n |-> n,
                accepted |-> Row(db["B"], "SyncSession", loc[n].session.id).verified]
    /\ UNCHANGED <<db, origin, seen, pull, pc, loc>>

NextSession ==
    \/ \E p \in Stores : SessOwn(p)
    \/ SelRegister("A", "B", FALSE)
    \/ SelRegister("B", "A", FALSE)
    \/ SessPost
    \/ \E n \in Sessions : SessAccept(n)
    \/ \E n \in Sessions : SessForge(n)
    \/ \E n \in Sessions : SessClientVerify(n)
    \/ \E n \in Sessions : SessServerVerify(n)
    \/ \E n \in Sessions : SessExchange(n)

SpecSession == Init /\ [][NextSession]_vars

----------------------------------------------------------------------------
(* Properties of the stores under Spec *)

\* every record of the batch has no signer, or a signer whose Device row is in
\* the store or comes earlier in the batch
KnownSigners(st, batch) ==
    \A i \in 1..Len(batch) :
        \/ batch[i].signed_by = NoId
        \/ \E d \in st.rows : d.model = "Device" /\ d.id = batch[i].signed_by
        \/ \E j \in 1..(i - 1) : batch[j].model = "Device" /\ batch[j].id = batch[i].signed_by

\* the purgatory row holds the model
Holds(row, m) ==
    \E k \in 1..Len(row.serialized_models) : deserialize(row.serialized_models)[k] = m

\* a purgatory row the call created holds the model
Quarantined(st, r, m) ==
    \E pk \in DOMAIN r.st.purgatory \ DOMAIN st.purgatory : Holds(r.st.purgatory[pk], m)

\* the model carries the signature its signer's key gives to its representation
Genuine(st, m) ==
    \E d \in st.rows :
        /\ d.model = "Device"
        /\ d.id = m.signed_by
        /\ m.signature = [by |-> d.public_key, msg |-> Representation(st, m).text]

HasFacility(st, m) == \E f \in st.rows : f.model = "Facility" /\ f.id = m.facility

FacilityMissing(st, batch, i) ==
    /\ batch[i].model = "FacilityUser"
    /\ ~HasFacility(st, batch[i])
    /\ ~\E j \in 1..(i - 1) : batch[j].model = "Facility" /\ batch[j].id = batch[i].facility

PositionOf(st, id) ==
    IF id \in DOMAIN st.metadata THEN st.metadata[id].counter_position ELSE 0

IsTrusted(st, id) == id \in DOMAIN st.metadata /\ st.metadata[id].is_trusted

Max(a, b) == IF a >= b THEN a ELSE b

C4_SameId(p) ==
    \A r \in Records(db[p]) :
        /\ r.id \in DOMAIN origin
        /\ r.id = uuid5(origin[r.id].dev, str(origin[r.id].counter))
        /\ \A q \in Records(db[p]) :
              (q.signed_by = r.signed_by /\ q.counter = r.counter) => q.id = r.id

\* C4 (as amended): every stored non-Device record keeps the id of its first
\* local save, uuid5 of the id of the device that first saved it and of the
\* counter it was given then, through later re-saves and imports; and no two
\* records of a store with the same (signed_by, counter) differ in id
C4_IdOfFirstSave == \A p \in Stores : C4_SameId(p)

\* C4 (as claimed): every stored non-Device signed record R has
\* R.id = uuid5(R.signed_by, str(R.counter))
C4_DeterministicId ==
    \A p \in Stores : \A r \in Records(db[p]) :
        r.signed_by # NoId => r.id = uuid5(r.signed_by, str(r.counter))

\* a record imported from A that B has saved again
C4_Witness ==
    \E r \in Records(db["B"]) :
        /\ r.signed_by = OwnId(db["B"])
        /\ r.id \in DOMAIN origin
        /\ origin[r.id].dev = OwnId(db["A"])
        /\ last.op = "resave"

C5_Import(st, batch, r) ==
    \A i \in 1..Len(batch) :
        FacilityMissing(st, batch, i) =>
            /\ r.raised = ""
            /\ r.unsaved_model_count > 0
            /\ Quarantined(st, r, batch[i])
            /\ (\A j \in (i + 1)..Len(batch) : batch[j] # batch[i]) => batch[i] \notin r.st.rows

C5_Held(st, held) ==
    \A k \in 1..Len(held) :
        held[k].model = "FacilityUser" /\ HasFacility(st, held[k]) /\ Genuine(st, held[k])

C5_Retry(st, pk, held, r) ==
    (Len(held) > 0 /\ C5_Held(st, held)) =>
        /\ r.raised = ""
        /\ r.unsaved_model_count = 0
        /\ \A k \in 1..Len(held) : held[k] \in r.st.rows
        /\ pk \notin DOMAIN r.st.purgatory

C7_Rejects(st, st0, obj, r) ==
    /\ (obj.signed_by = NoId \/ verify(st0, obj) = "false") =>
          /\ r.exc \in ValidationErrors
          /\ Records(r.st) = Records(st)
          /\ PositionOf(r.st, obj.signed_by) = PositionOf(st, obj.signed_by)
    /\ get_counter(r.st, OwnId(r.st)) = get_counter(st, OwnId(st))

\* C7: in every reachable state, an imported save of a record with no
\* signed_by, or whose verify() is false, raises a ValidationError and leaves
\* the stored records and the signer's counter_position as they were; and no
\* imported save, rejected or not, changes the own device's counter
C7_RejectsWithoutEffect ==
    \A obj \in db["A"].rows \cup Altered(db["A"]) :
        C7_Rejects(db["B"], get_own_device(db["B"], "B").st, obj,
                   IF obj.model = "Device" THEN Device_save(db["B"], "B", obj, FALSE)
                   ELSE save_imported(db["B"], "B", obj))

\* an import has rejected a record
C7_Witness ==
    /\ last.op = "import"
    /\ last.raised = ""
    /\ last.saved_model_count = 0
    /\ last.unsaved_model_count = 1

TrustModels == {"Zone", "DeviceZone"}

C8_Import(st, batch, r) ==
    /\ \A m \in r.committed : m.model \in TrustModels => IsTrusted(st, m.signed_by)
    /\ \A i \in 1..Len(batch) :
          (batch[i].model \in TrustModels /\ ~IsTrusted(st, batch[i].signed_by)) =>
              /\ r.raised = ""
              /\ batch[i] \notin r.st.rows
              /\ Quarantined(st, r, batch[i])
              /\ Len(batch) = 1 => (Records(r.st) = Records(st) /\ r.st.metadata = st.metadata)

C8_Held(st, held) ==
    \A k \in 1..Len(held) :
        held[k].model \in TrustModels /\ IsTrusted(st, held[k].signed_by) /\ Genuine(st, held[k])

C8_Retry(st, pk, held, r) ==
    (Len(held) > 0 /\ C8_Held(st, held)) =>
        /\ r.raised = ""
        /\ \A k \in 1..Len(held) : held[k] \in r.st.rows
        /\ pk \notin DOMAIN r.st.purgatory

C9_Batch(st, batch, r) ==
    /\ r.raised = ""
    /\ r.saved_model_count + r.unsaved_model_count = Len(batch)
    /\ \A i \in 1..Len(batch) : batch[i] \in r.st.rows \/ Quarantined(st, r, batch[i])

\* C9 (as claimed): for every batch, save_serialized_models completes,
\* saved_model_count + unsaved_model_count is the number of records of the
\* batch, and every record of the batch is committed or held by the purgatory
\* row
C9_SavedOrQuarantined ==
    \A batch \in Deliverable(db["A"]) :
        C9_Batch(db["B"], batch, save_serialized_models(db["B"], "B", serialize(batch), 0))

\* an import has ended with an exception that is no ValidationError
C9_Witness ==
    /\ last.op = "import"
    /\ last.raised = "DoesNotExist"

C10_Save(st0, obj, r) ==
    r.exc = "" =>
        PositionOf(r.st, obj.signed_by) = Max(PositionOf(st0, obj.signed_by), obj.counter)

\* C10: in every reachable state, for every remote device D known to store B,
\* counter_position[D] is the highest counter among the records signed by D
\* that B has imported with success (0 if none); and every successful imported
\* save of a record R leaves counter_position[R.signed_by] at the maximum of
\* its former value and R.counter
C10_HighWaterMark ==
    /\ \A d \in db["B"].rows :
          (d.model = "Device" /\ d.id # OwnId(db["B"])) =>
              PositionOf(db["B"], d.id) = IF d.id \in DOMAIN seen["B"] THEN seen["B"][d.id] ELSE 0
    /\ \A obj \in db["A"].rows \cup Altered(db["A"]) :
          C10_Save(get_own_device(db["B"], "B").st, obj,
                   IF obj.model = "Device" THEN Device_save(db["B"], "B", obj, FALSE)
                   ELSE save_imported(db["B"], "B", obj))

\* B has imported a record of A's with a counter below the position it holds
C10_Witness ==
    /\ PositionOf(db["B"], OwnId(db["A"])) = MaxCounter
    /\ \E r \in Records(db["B"]) :
          r.signed_by = OwnId(db["A"]) /\ r.counter < MaxCounter
    /\ \E r \in Records(db["B"]) :
          r.signed_by = OwnId(db["A"]) /\ r.counter = MaxCounter

----------------------------------------------------------------------------
(* Properties of a pull under SpecPull *)

\* B holds every record of A's
Complete == Records(db["A"]) \subseteq db["B"].rows

\* C1 (as claimed): the peer has received every record of D after finitely
\* many rounds.  A round is a function of the two stores, so a round that
\* leaves the peer's known counter where it was is followed only by rounds
\* like it: the peer then has every record
C1_BatchCompleteness ==
    (pull.phase = "run" /\ pull.stalled) => Complete

\* a round has left the known counter where it was
C1_Witness ==
    /\ pull.phase = "run"
    /\ pull.stalled
    /\ pull.round > 1

\* C2 (as claimed): no record is in the batches of two different rounds
C2_NoDuplicates ==
    pull.phase = "run" => ~pull.dup

\* a second round has returned a batch
C2_Witness ==
    /\ pull.phase = "run"
    /\ pull.round = 2
    /\ pull.batch # <<>>

\* C6 (as claimed): when A has saved n <= limit records and B imports the
\* batch selected with {A: 0}, B holds all n records and counter_position[A] = n;
\* and importing that batch again reports no unsaved record and leaves B's
\* store as it was
C6_RoundTrip ==
    (/\ pull.phase = "run"
     /\ pull.round = 1
     /\ Cardinality(Records(db["A"])) <= pull.limit) =>
        /\ Complete
        /\ PositionOf(db["B"], OwnId(db["A"])) = Cardinality(Records(db["A"]))
        /\ pull.again => (db["B"] = pull.before /\ last.unsaved_model_count = 0)

\* B has imported the first batch twice
C6_Witness ==
    /\ pull.phase = "run"
    /\ pull.round = 1
    /\ pull.again
    /\ Cardinality(Records(db["A"])) = pull.limit

----------------------------------------------------------------------------
(* Properties of concurrent saves under SpecConc *)

AllDone == Savers # {} /\ \A i \in Savers : pc[i] = "done"

HasCounter(i) == pc[i] \in {"insert", "sign", "done"}

\* C3 (as claimed): no two savers obtain the same counter, and when the n
\* savers are done their records' counters are k+1 .. k+n and the own
\* counter_position is k+n
C3_DistinctCounters ==
    /\ \A i, j \in Savers :
          (i # j /\ HasCounter(i) /\ HasCounter(j)) => loc[i].obj.counter # loc[j].obj.counter
    /\ AllDone =>
          /\ {loc[i].obj.counter : i \in Savers} = (last.k + 1)..(last.k + last.n)
          /\ get_counter(db["A"], OwnId(db["A"])) = last.k + last.n

\* several concurrent savers are done
C3_Witness ==
    /\ AllDone
    /\ Cardinality(Savers) > 1

\* C11 (as claimed): counter_position never decreases.  A saver's
\* counter_position is the value it wrote to the own device's row, so the row
\* holds at least that value ever after
C11_NeverDecreases ==
    \A i \in Savers :
        HasCounter(i) => get_counter(db["A"], OwnId(db["A"])) >= loc[i].counter_position

\* every saver has written the counter, the last with a value read earlier
C11_Witness ==
    /\ Cardinality(Savers) = MaxSavers
    /\ \A i \in Savers : HasCounter(i)
    /\ \E i \in Savers : get_counter(db["A"], OwnId(db["A"])) < loc[i].counter_position

\* the purgatory rows other than pk are as they were
OthersKept(st, r, pk) ==
    /\ DOMAIN r.st.purgatory \ {pk} = DOMAIN st.purgatory \ {pk}
    /\ \A k \in DOMAIN st.purgatory \ {pk} : r.st.purgatory[k] = st.purgatory[k]

\* a record of the input failed: it was left unsaved, or its save raised
SomeFailed(r) == r.unsaved_model_count > 0 \/ r.raised # ""

\* row pk holds the records that failed and one more attempt than before
RowKept(st, r, pk, before) ==
    /\ pk \in DOMAIN r.st.purgatory
    /\ deserialize(r.st.purgatory[pk].serialized_models) = r.unsaved_models
    /\ r.unsaved_models # <<>>
    /\ \A k \in 1..Len(r.unsaved_models) : r.unsaved_models[k] \notin r.committed
    /\ r.st.purgatory[pk].retry_attempts = before + 1
    /\ OthersKept(st, r, pk)

C19_Fresh(st, r) ==
    IF SomeFailed(r)
    THEN \E pk \in DOMAIN r.st.purgatory \ DOMAIN st.purgatory : RowKept(st, r, pk, 0)
    ELSE r.st.purgatory = st.purgatory

C19_Retried(st, r, pk) ==
    IF SomeFailed(r)
    THEN RowKept(st, r, pk, st.purgatory[pk].retry_attempts)
    ELSE pk \notin DOMAIN r.st.purgatory /\ OthersKept(st, r, pk)

\* C19 (as claimed): after every invocation of save_serialized_models, if a
\* record failed then exactly one purgatory row, a new one or the retried one,
\* holds exactly the records that failed and none that was committed, with
\* retry_attempts one more than before (1 for a new row); if none failed, a
\* retried row is deleted and fresh input creates no row; no purgatory row
\* holds an empty list of records
C19_Bookkeeping ==
    /\ \A batch \in Deliverable(db["A"]) :
          C19_Fresh(db["B"], save_serialized_models(db["B"], "B", serialize(batch), 0))
    /\ \A pk \in DOMAIN db["B"].purgatory :
          /\ C19_Retried(db["B"], save_serialized_models(db["B"], "B", <<>>, pk), pk)
          /\ db["B"].purgatory[pk].serialized_models # <<>>

\* an import has ended with an exception and has left no purgatory row for
\* the record that failed
C19_Witness ==
    /\ last.op = "import"
    /\ last.raised # ""
    /\ last.saved_model_count = 0
    /\ DOMAIN db["B"].purgatory = {}

\* C13 (as claimed): verify() of a record a peer may deliver never raises: it
\* answers true or false, also when the store has no row of the signer or of
\* an entity the record references
C13_VerifyNeverRaises ==
    \A batch \in Deliverable(db["A"]) :
        \A i \in 1..Len(batch) : verify(db["B"], batch[i]) \in {"true", "false"}

\* A holds a signed record of a model that needs no trusted signature, and B
\* has no row of its signer
C13_Witness ==
    \E r \in db["A"].rows :
        /\ r.model = "FacilityUser"
        /\ r.signed_by # NoId
        /\ ~Exists(db["B"], "Device", r.signed_by)
        /\ verify(db["B"], r) = "DoesNotExist"

\* the rows a local save has stored once and not yet signed
HalfSaved(st) == {r \in Records(st) : r.signed_by = NoId}

C20_Signed(st, g) ==
    \A k \in 1..Len(g.models) :
        /\ deserialize(g.models)[k] \notin HalfSaved(st)
        /\ deserialize(g.models)[k].signed_by # NoId
        /\ verify(st, deserialize(g.models)[k]) = "true"

\* C20: at every point of the concurrent local saves, also after a save has
\* failed between its two stores, get_serialized_models returns no record that
\* is stored but not yet signed: every record it returns has signed_by set and
\* a signature that verifies under the signer's key
C20_NeverHalfSaved ==
    \A device_counters \in OwnCounterMaps(db["A"]), limit \in 1..MaxLimit :
        C20_Signed(db["A"],
            get_serialized_models(db["A"], "A", device_counters, limit, NoId))

\* the selector has returned records while the store holds a record a saver
\* has stored once and not signed, and one whose save failed there
C20_Witness ==
    /\ pull.phase = "select"
    /\ pull.count > 0
    /\ \E i \in Savers : pc[i] = "sign" /\ Row(db["A"], "Facility", loc[i].obj.id) \in HalfSaved(db["A"])
    /\ \E i \in Savers : pc[i] = "failed" /\ Row(db["A"], "Facility", loc[i].obj.id) \in HalfSaved(db["A"])

----------------------------------------------------------------------------
(* Properties of concurrent bootstraps under SpecBoot *)

Returned(i) == pc[i] \in {"done", "IntegrityError"}

\* C12 (as claimed): once a get_own_device() call has ended there is exactly
\* one Device row and exactly one metadata row with is_own_device set, the
\* device is self-signed, its counter_position is 0, and every call that has
\* ended has returned that device
C12_SingleOwnDevice ==
    (\E i \in Callers : Returned(i)) =>
        /\ Cardinality(DeviceRows(db["A"])) = 1
        /\ Cardinality(OwnDevices(db["A"])) = 1
        /\ \A r \in DeviceRows(db["A"]) :
              /\ r.signed_by = r.id
              /\ OwnDevices(db["A"]) = {r.id}
              /\ get_counter(db["A"], r.id) = 0
              /\ \A i \in Callers : Returned(i) => (pc[i] = "done" /\ loc[i].result = r.id)

\* several concurrent calls have all ended
C12_Witness ==
    /\ last.op = "bootstrap"
    /\ Cardinality(Callers) > 1
    /\ \A i \in Callers : Returned(i)

\* the tokens of the non-falsy fields among signed_version, name, description
\* and public_key, in that order
FourFields(obj) ==
    Chunks(obj, SelectSeq(<<"signed_version", "name", "description", "public_key">>,
                          LAMBDA f : Value(obj, f) # Blank(f)))

IdToken(obj) == IF obj.id = NoId THEN <<>> ELSE <<<<"id", ToString(obj.id)>>>>

\* the Device objects of the bootstrap: each caller's instance, and the rows
Bootstrapped == {loc[i].own : i \in Callers} \cup DeviceRows(db["A"])

\* C17 (as claimed): the representation a Device is signed over at bootstrap,
\* and the one it is verified over once stored, is exactly the tokens of the
\* non-falsy fields among signed_version, name, description and public_key,
\* in that order, with no id token and no counter token
C17_FourFieldsOnly ==
    /\ \A d \in Bootstrapped : d.signature # NoSignature => d.signature.msg = FourFields(d)
    /\ \A d \in DeviceRows(db["A"]) :
          Device_hashable_representation(db["A"], d).text = FourFields(d)

\* C17 (amended): the representation is the id token, when the id is set,
\* followed by the tokens of the non-falsy fields among signed_version, name,
\* description and public_key, in that order, and holds no counter token: the
\* signature made before the save allocates the id (signed_by unset) is over
\* the four fields alone, the signature made in save and every verification
\* of a stored Device are over the id token and the four fields
C17_IdThenFourFields ==
    /\ \A d \in Bootstrapped :
          d.signature # NoSignature =>
              /\ d.signature.msg =
                    IF d.signed_by = NoId THEN FourFields(d) ELSE IdToken(d) \o FourFields(d)
              /\ \A i \in 1..Len(d.signature.msg) : d.signature.msg[i][1] # "counter"
    /\ \A d \in DeviceRows(db["A"]) :
          /\ d.id # NoId
          /\ Device_hashable_representation(db["A"], d).text = IdToken(d) \o FourFields(d)
          /\ d.signed_by = d.id => verify(db["A"], d) = "true"

\* a get_own_device() call has returned the device, stored and self-signed
C17_Witness ==
    /\ \E i \in Callers : pc[i] = "done"
    /\ \E d \in DeviceRows(db["A"]) : d.signed_by = d.id /\ verify(db["A"], d) = "true"

----------------------------------------------------------------------------
(* Properties of the batch selector under SpecSelect *)

Syncable(st) == {r \in st.rows : \E m \in 1..Len(syncing_models) : syncing_models[m] = r.model}

\* the counter the peer reports for a device: 0 when device_counters is None
Known(device_counters, device) ==
    IF device_counters = {} THEN 0 ELSE (CHOOSE m \in device_counters : TRUE)[device]

\* the device_counters that name the device, and None
Naming(st, device) ==
    {dc \in CounterMaps(st) : dc = {} \/ device \in DOMAIN (CHOOSE m \in dc : TRUE)}

InWindow(r, device_counters, limit, g) ==
    /\ r.counter >= Known(device_counters, r.signed_by)
    /\ r.counter < Known(device_counters, r.signed_by) + limit + g.boost

C14_Selected(st, T, Z, device_counters, limit, g) ==
    \A r \in Syncable(st) :
        r.signed_by = T =>
            /\ (r.zone_fallback = Z /\ InWindow(r, device_counters, limit, g))
                  => r.id \in Pks(g.models)
            /\ r.zone_fallback # Z => r.id \notin Pks(g.models)

\* C14 (as claimed): for a trusted device T that is no member of zone Z,
\* get_serialized_models for zone Z with device_counters None or a map naming
\* T returns every record signed by T with zone_fallback = Z whose counter is
\* in T's window, and no record signed by T with another zone_fallback or none
C14_ZoneFallback ==
    \A T \in Devices(db["B"]), Z \in Zones(db["B"]) :
        (IsTrusted(db["B"], T) /\ Device_get_zone(db["B"], T) # Z) =>
            \A device_counters \in Naming(db["B"], T), limit \in 1..MaxLimit :
                C14_Selected(db["B"], T, Z, device_counters, limit,
                    get_serialized_models(db["B"], "B", device_counters, limit, Z))

\* B has answered, for a zone and device_counters None, while it holds a record
\* with that fallback zone signed by the trusted device A, which is no member
C14_Witness ==
    /\ last.op = "select"
    /\ last.none
    /\ last.zone # NoId
    /\ IsTrusted(db["B"], OwnId(db["A"]))
    /\ Device_get_zone(db["B"], OwnId(db["A"])) # last.zone
    /\ \E r \in Syncable(db["B"]) :
          /\ r.signed_by = OwnId(db["A"])
          /\ r.zone_fallback = last.zone
          /\ r.counter < last.limit + last.boost

\* the records of a returned batch that a device signed
BatchOf(g, device) ==
    {m \in {deserialize(g.models)[i] : i \in 1..Len(g.models)} : m.signed_by = device}

C16_Bound(limit, g) == g.count <= limit + g.boost

\* C16 (as claimed): for every device_counters, limit and zone, the batch
\* get_serialized_models returns holds at most limit + boost records
C16_BatchBound ==
    \A device_counters \in CounterMaps(db["B"]), limit \in 1..MaxLimit,
       zone \in ZoneArgs(db["B"]) :
        C16_Bound(limit, get_serialized_models(db["B"], "B", device_counters, limit, zone))

C16_Windows(st, device_counters, limit, g) ==
    /\ \A i \in 1..Len(g.models) :
          /\ deserialize(g.models)[i].signed_by \in Devices(st)
          /\ device_counters # {} =>
                deserialize(g.models)[i].signed_by \in DOMAIN (CHOOSE m \in device_counters : TRUE)
    /\ \A d \in Devices(st) :
          /\ \A m \in BatchOf(g, d) : InWindow(m, device_counters, limit, g)
          /\ Cardinality({m.counter : m \in BatchOf(g, d)}) <= limit + g.boost

\* C16 (amended): every record of the batch is signed by a device of
\* device_counters and has its counter in that device's window
\* [known, known + limit + boost), so the batch holds at most limit + boost
\* counters of each device
C16_WindowBound ==
    \A device_counters \in CounterMaps(db["B"]), limit \in 1..MaxLimit,
       zone \in ZoneArgs(db["B"]) :
        C16_Windows(db["B"], device_counters, limit,
            get_serialized_models(db["B"], "B", device_counters, limit, zone))

\* B has answered with more than limit + boost records
C16_Witness ==
    /\ last.op = "select"
    /\ last.count > last.limit + last.boost

\* the records get_serialized_models may return: of a syncable class, signed
\* by a device it retains, with the zone as fallback zone when that device is
\* no member of the zone, and with a counter not below the peer's known one
Retained(st, device_counters, zone) ==
    {d \in Devices(st) :
        /\ IF device_counters = {} THEN d \in {r.id : r \in by_zone(st, "Device", zone)}
           ELSE d \in DOMAIN (CHOOSE m \in device_counters : TRUE)
        /\ Device_get_zone(st, d) = zone \/ IsTrusted(st, d)}

Eligible(st, device_counters, zone) ==
    {r \in Syncable(st) :
        /\ r.signed_by \in Retained(st, device_counters, zone)
        /\ Device_get_zone(st, r.signed_by) # zone => r.zone_fallback = zone
        /\ r.counter >= Known(device_counters, r.signed_by)}

\* the zone of the call: the own device's when none is given
OwnZone(st, zone) == IF zone = NoId THEN Device_get_zone(st, OwnId(st)) ELSE zone

C18_Reached(st, device_counters, limit, zone, g) ==
    /\ g.count = 0 <=> Eligible(st, device_counters, zone) = {}
    /\ g.boost % limit = 0
    /\ g.boost > 0 =>
          \E r \in Eligible(st, device_counters, zone) :
              r.counter >= Known(device_counters, r.signed_by) + g.boost

\* C18: for limit >= 1 the while loop of get_serialized_models ends, after as
\* many boosts as a record far ahead requires and no more; the batch is empty
\* if and only if no eligible record has a counter at or above the peer's known
\* counter for its device, so one call returns a record whenever one exists
C18_BoostReaches ==
    \A device_counters \in CounterMaps(db["B"]), limit \in 1..MaxLimit,
       zone \in ZoneArgs(db["B"]) :
        C18_Reached(db["B"], device_counters, limit, OwnZone(db["B"], zone),
            get_serialized_models(db["B"], "B", device_counters, limit, zone))

\* B has answered with a batch it found only after boosting the window
C18_Witness ==
    /\ last.op = "select"
    /\ last.boost > 0
    /\ last.count > 0

C21_Resolved(st, zone, g) ==
    \A k \in 1..Len(g.models) : SyncedModel_in_zone(st, deserialize(g.models)[k], zone)

\* C21 (as claimed): every record get_serialized_models returns for a zone Z,
\* whatever the device_counters and the limit, resolves to Z under its own
\* get_zone; so no record of a device that is neither a member of Z nor
\* trusted, and none of a trusted signer that is a member of another zone
C21_InRequestedZone ==
    \A device_counters \in CounterMaps(db["B"]), limit \in 1..MaxLimit,
       zone \in Zones(db["B"]) :
        C21_Resolved(db["B"], zone,
            get_serialized_models(db["B"], "B", device_counters, limit, zone))

\* B has answered, for a zone, with records of the trusted device A, which
\* is a member of another zone
C21_Witness ==
    /\ last.op = "select"
    /\ last.zone # NoId
    /\ last.count > 0
    /\ IsTrusted(db["B"], OwnId(db["A"]))
    /\ Device_get_zone(db["B"], OwnId(db["A"])) \notin {NoId, last.zone}
    /\ Device_get_zone(db["B"], OwnId(db["B"])) = NoId

----------------------------------------------------------------------------
(* Properties of the handshake under SpecSession *)

SessionRow(n) == Row(db["B"], "SyncSession", loc[n].session.id)

Accepted(n) == last.op = "exchange" /\ last.n = n /\ last.accepted

\* C15: a session row is verified only if the server signature the client
\* received verifies under the server device's key and the client signature
\* the server received verifies under the client device's key, both over the
\* four components of the row; when a signature was altered, made by another
\* device or made for another session, the row stays unverified; and no
\* record exchange is accepted on an unverified session
C15_HandshakeSafety ==
    \A n \in Sessions :
        pc[n] # "posted" =>
            /\ SessionRow(n).verified =>
                  /\ verify_server_signature(db["A"], SessionRow(n), loc[n].server_signature)
                  /\ verify_client_signature(db["B"], SessionRow(n), loc[n].client_signature)
            /\ loc[n].forged # "" => ~SessionRow(n).verified
            /\ Accepted(n) => SessionRow(n).verified

\* one session is verified and a record exchange accepted on it, another
\* was refused after a signature made for another session took the place of
\* the genuine one
C15_Witness ==
    /\ \E n \in Sessions : pc[n] = "verified" /\ Accepted(n)
    /\ \E n \in Sessions :
          pc[n] \in {"refused", "rejected"} /\ loc[n].forged = "other session"

====
